---- MODULE Spec2Model ----
(***************************************************************************)
(* The task orchestrator of FACTRADE: TaskQueue (core/TaskQueue.ts),       *)
(* RetryEngine (retry/RetryEngine.ts) and EscalationManager                *)
(* (escalation/EscalationManager.ts), modelled as one state machine.       *)
(*                                                                         *)
(* JavaScript runs each handler to its next await; the steps below are     *)
(* the pieces of processQueue / processTask / executeWithRetry /           *)
(* executeStrategy between two awaits that give control back to the event  *)
(* loop (the wrapped operation and the inter-attempt sleep), plus the      *)
(* breaker check before each attempt, which reads the clock.               *)
(*                                                                         *)
(* executeWithRetry takes any operation; TaskQueue.executeTask is a        *)
(* placeholder for the unit of work, so whether an invocation resolves or  *)
(* rejects is an input here (operationSucceeds / operationFails).          *)
(***************************************************************************)
EXTENDS Integers, Sequences, FiniteSets, TLC

(* ------------------------------ bounds -------------------------------- *)
\* number of tasks ever enqueued
MaxTasks == 2
\* number of clock advances in a behaviour
MaxTicks == 2
\* number of executeWithRetry calls a direct caller of the RetryEngine makes
MaxEngineCalls == 7
\* number of calls a direct caller of the EscalationManager makes
MaxManagerCalls == 2
\* largest failure count given to checkEscalation
MaxFailures == 11
\* largest attempt index given to calculateDelay
MaxAttemptIndex == 5

(* ------------------------- program constants -------------------------- *)
circuitBreakerThreshold == 5
circuitBreakerTimeout == 60000
escalationThreshold == 5
\* RetryEngine.defaultConfig: maxAttempts, baseDelay, maxDelay and jitterFactor
\* (0.2, in percent)
configMaxAttempts == 3
configBaseDelay == 1000
configMaxDelay == 30000
configJitterPercent == 20
\* addTask defaults
defaultPriority == 5
defaultMaxAttempts == 3
\* performHealthChecks: the window it scans, and the number of recent
\* failures it tolerates
healthCheckWindow == 15 * 60 * 1000
healthCheckLimit == 10
\* getEscalationHistory: the default of limit
defaultHistoryLimit == 100

\* the clock advances in steps of half a cool-down window
TickMs == circuitBreakerTimeout \div 2

(* ------------------------------ inputs -------------------------------- *)
\* taskData as given by the callers of addTask (a Partial<Task>: any field
\* may be absent)
TaskInputs ==
    {[type |-> "NETWORK_ERROR", priority |-> 7, maxAttempts |-> 10,
      metadata |-> <<"source", "api">>],
     [priority |-> 0, maxAttempts |-> 0],
     [priority |-> 7, maxAttempts |-> -1]}

TaskIds == 1..MaxTasks

VARIABLES
    tasks,              \* TaskQueue.tasks: sequence of Task records, id = index
    queue,              \* TaskQueue.queue: sequence of task ids (pending list)
    processing,         \* TaskQueue.processing
    circuitBreakers,    \* RetryEngine.circuitBreakers: id -> record (partial)
    escalationHistory,  \* EscalationManager.escalationHistory
    taskFailureCounts,  \* EscalationManager.taskFailureCounts (partial)
    now,                \* Date.now()
    call,               \* the executeWithRetry call in flight (pc = "idle": none)
    lastResult,         \* the RetryResult executeWithRetry returned in the last
                        \* step (NoResult when the last step returned none)
    cycles,             \* history: per task, the cycles started for it
    failRun,            \* history: per id, failed executeWithRetry calls since its
                        \*          breaker record was last cleared (or since start)
    trips,              \* history: per id, closed -> open changes since then
    cooled,             \* history: per id, operation invocations since a cool-down
                        \*          reset with no success or block since (-1: none)
    apiCalls,           \* history: the calls made so far by a caller that drives
                        \*          the RetryEngine or the EscalationManager alone
    ret,                \* what the EscalationManager method such a caller
                        \* called in the last step returned (NoReturn: none)
    currentPhase,       \* PhaseManager.currentPhase
    metrics             \* PhaseManager.metrics

vars == <<tasks, queue, processing, circuitBreakers, escalationHistory,
          taskFailureCounts, now, call, lastResult, cycles, failRun, trips, cooled,
          apiCalls, ret, currentPhase, metrics>>

phaseVars == <<currentPhase, metrics>>

(* ------------------------------ helpers ------------------------------- *)
\* Map.delete(k)
MapDelete(m, k) == [x \in DOMAIN m \ {k} |-> m[x]]
\* Map.set(k, v)
MapSet(m, k, v) == [x \in DOMAIN m \cup {k} |-> IF x = k THEN v ELSE m[x]]

\* no executeWithRetry call in flight (invoked, blocked: history, the checks
\* of the call that went on to invoke the operation / found the breaker open)
IdleCall == [pc |-> "idle", taskId |-> 0, strategies |-> <<>>, s |-> 0, i |-> 0,
             lastError |-> "none", invoked |-> 0, blocked |-> 0]

\* no EscalationManager method returned in the last step
NoReturn == [op |-> "none"]

(* ----------------------------- RetryEngine ---------------------------- *)
\* getMultiApproachStrategies as a lookup with no default case
getMultiApproachStrategiesPartial(errorType) ==
    CASE errorType = "NETWORK_ERROR" ->
            <<"EXPONENTIAL_BACKOFF", "LINEAR_BACKOFF", "CIRCUIT_BREAKER">>
      [] errorType = "RATE_LIMIT" ->
            <<"LINEAR_BACKOFF", "EXPONENTIAL_BACKOFF">>
      [] errorType = "TEMPORARY_FAILURE" ->
            <<"IMMEDIATE_RETRY", "EXPONENTIAL_BACKOFF">>
      [] OTHER -> <<>>

getMultiApproachStrategies(errorType) ==
    CASE errorType = "NETWORK_ERROR" ->
            <<"EXPONENTIAL_BACKOFF", "LINEAR_BACKOFF", "CIRCUIT_BREAKER">>
      [] errorType = "RATE_LIMIT" ->
            <<"LINEAR_BACKOFF", "EXPONENTIAL_BACKOFF">>
      [] errorType = "TEMPORARY_FAILURE" ->
            <<"IMMEDIATE_RETRY", "EXPONENTIAL_BACKOFF">>
      [] OTHER ->
            <<"EXPONENTIAL_BACKOFF", "ALTERNATIVE_APPROACH">>

\* Math.pow(2, n) for an attempt index n
RECURSIVE pow2(_)
pow2(n) == IF n = 0 THEN 1 ELSE 2 * pow2(n - 1)

\* Math.min
min(a, b) == IF a < b THEN a ELSE b

\* delayBeforeJitter as a switch that does not cap the delay
delayBeforeJitterUncapped(strategy, attempt, config) ==
    CASE strategy = "EXPONENTIAL_BACKOFF" -> config.baseDelay * pow2(attempt)
      [] strategy = "LINEAR_BACKOFF" -> config.baseDelay * (attempt + 1)
      [] strategy = "IMMEDIATE_RETRY" -> 0
      [] OTHER -> config.baseDelay

\* calculateDelay: the value of delay after the switch over the strategy
delayBeforeJitter(strategy, attempt, config) ==
    CASE strategy = "EXPONENTIAL_BACKOFF" ->
            min(config.baseDelay * pow2(attempt), config.maxDelay)
      [] strategy = "LINEAR_BACKOFF" ->
            min(config.baseDelay * (attempt + 1), config.maxDelay)
      [] strategy = "IMMEDIATE_RETRY" -> 0
      [] OTHER -> config.baseDelay

\* calculateDelay: the value it returns, in thousandths of a millisecond,
\* when Math.random() returns randomTenths / 10:
\* jitter = delay * jitterFactor * (random - 0.5), result Math.max(0, delay + jitter)
calculateDelay(strategy, attempt, config, randomTenths) ==
    LET delay == delayBeforeJitter(strategy, attempt, config)
        jitter == delay * config.jitterPercent * (randomTenths - 5)
        sum == delay * 1000 + jitter
    IN IF sum > 0 THEN sum ELSE 0

\* atThreshold as a comparison that is one failure early
atThresholdEarly(cb, taskId) ==
    /\ taskId \in DOMAIN cb
    /\ cb[taskId].failures + 1 >= circuitBreakerThreshold

\* breaker.failures >= this.circuitBreakerThreshold
atThreshold(cb, taskId) ==
    /\ taskId \in DOMAIN cb
    /\ cb[taskId].failures >= circuitBreakerThreshold

\* withinTimeout as a comparison that is off by one
withinTimeoutInclusive(breaker, t) == t - breaker.lastFailure <= circuitBreakerTimeout

\* timeSinceLastFailure < this.circuitBreakerTimeout
withinTimeout(breaker, t) == t - breaker.lastFailure < circuitBreakerTimeout

\* isCircuitBreakerOpen as a check that never reports an open breaker
isCircuitBreakerOpenNever(cb, taskId, t) == FALSE

\* isCircuitBreakerOpen: the value it returns at clock t
isCircuitBreakerOpen(cb, taskId, t) ==
    /\ atThreshold(cb, taskId)
    /\ withinTimeout(cb[taskId], t)

\* resetCircuitBreaker as a reset that keeps the record
resetCircuitBreakerKeeps(cb, taskId) == cb

\* resetCircuitBreaker as a reset that clears the map of every identity
resetCircuitBreakerAll(cb, taskId) == <<>>

\* Map.delete of resetCircuitBreaker
resetCircuitBreaker(cb, taskId) == MapDelete(cb, taskId)

\* isCircuitBreakerOpen: the breaker map it leaves (a record at the threshold
\* whose timeout has elapsed is reset)
breakersAfterCheck(cb, taskId, t) ==
    IF atThreshold(cb, taskId) /\ ~withinTimeout(cb[taskId], t)
    THEN resetCircuitBreaker(cb, taskId)
    ELSE cb

\* recordFailure as an update that counts a failed call twice
recordFailureTwice(cb, taskId, t) ==
    LET breaker == IF taskId \in DOMAIN cb THEN cb[taskId]
                   ELSE [failures |-> 0, lastFailure |-> 0]
    IN MapSet(cb, taskId, [failures |-> breaker.failures + 2, lastFailure |-> t])

\* recordFailure as an update that does not read the record it replaces
recordFailureFresh(cb, taskId, t) ==
    MapSet(cb, taskId, [failures |-> 1, lastFailure |-> t])

recordFailure(cb, taskId, t) ==
    LET breaker == IF taskId \in DOMAIN cb THEN cb[taskId]
                   ELSE [failures |-> 0, lastFailure |-> 0]
    IN MapSet(cb, taskId, [failures |-> breaker.failures + 1, lastFailure |-> t])

NoResult == [taskId |-> 0, success |-> FALSE, attempts |-> 0, strategy |-> "none",
             error |-> "none", invoked |-> 0, blocked |-> 0]

\* the RetryResult of executeStrategy after a successful attempt, which
\* executeWithRetry returns as it is (invoked, blocked: history, the operation's
\* invocations and the short-circuited checks during the call)
successResult(c) ==
    [taskId |-> c.taskId, success |-> TRUE, attempts |-> c.i + 1,
     strategy |-> c.strategies[c.s], error |-> "none", invoked |-> c.invoked,
     blocked |-> c.blocked]

\* the RetryResult of executeWithRetry when every strategy is exhausted
failureResult(c) ==
    [taskId |-> c.taskId, success |-> FALSE,
     attempts |-> configMaxAttempts * Len(c.strategies),
     strategy |-> c.strategies[Len(c.strategies)], error |-> c.lastError,
     invoked |-> c.invoked, blocked |-> c.blocked]

\* moreAttempts as a loop test that lets one attempt too many through
moreAttemptsOneMore(i) == i < configMaxAttempts

\* the loop test of executeStrategy after a failed attempt i: more attempts remain
moreAttempts(i) == i < configMaxAttempts - 1

(* -------------------------- EscalationManager ------------------------- *)
Levels == <<"INFO", "WARNING", "ERROR", "CRITICAL", "HUMAN_INTERVENTION">>

\* the taskId 'system' of the events performHealthChecks raises (task ids
\* are numbers here, and no task has this one)
systemId == 0

\* checkEscalation as a ladder whose Critical step is strict
checkEscalationStrict(failures) ==
    IF failures >= escalationThreshold * 2 THEN "HUMAN_INTERVENTION"
    ELSE IF failures > escalationThreshold THEN "CRITICAL"
    ELSE IF 2 * failures >= escalationThreshold THEN "ERROR"
    ELSE IF failures > 0 THEN "WARNING"
    ELSE "INFO"

\* checkEscalation: the level it returns
checkEscalation(failures) ==
    IF failures >= escalationThreshold * 2 THEN "HUMAN_INTERVENTION"
    ELSE IF failures >= escalationThreshold THEN "CRITICAL"
    ELSE IF 2 * failures >= escalationThreshold THEN "ERROR"
    ELSE IF failures > 0 THEN "WARNING"
    ELSE "INFO"

\* generateEventId: evt_<clock>_<random>, here the rank of the event
generateEventId(history) == Len(history) + 1

\* escalate as a method that records no event of level Info
escalateSkipsInfo(history, taskId, level, message, metadata, t) ==
    IF level = "INFO" THEN history
    ELSE Append(history, [id |-> generateEventId(history), taskId |-> taskId,
                          level |-> level, message |-> message, timestamp |-> t,
                          metadata |-> metadata])

\* escalate: the history after the call
escalate(history, taskId, level, message, metadata, t) ==
    Append(history, [id |-> generateEventId(history), taskId |-> taskId,
                     level |-> level, message |-> message, timestamp |-> t,
                     metadata |-> metadata])

\* the notification side effects of the handler escalate runs for a level
\* (handleInfo and handleWarning only write to the log)
sideEffectsOf(level) ==
    CASE level = "ERROR" -> {"notifyOperations"}
      [] level = "CRITICAL" -> {"notifyOperations", "triggerAlerts"}
      [] level = "HUMAN_INTERVENTION" ->
            {"notifyOperations", "triggerAlerts", "createTicket"}
      [] OTHER -> {}

\* how the side effects of one escalate call end
SideEffectOutcomes == {"ok", "NotificationError"}

\* escalate calls its handler with no try/catch around it: whether the call
\* ends by throwing, given how the side effects ended
escalateThrows(level, outcome) ==
    sideEffectsOf(level) # {} /\ outcome = "NotificationError"

\* getRecentFailures as a filter that looks at the time of an event only
getRecentFailuresAnyLevel(history, t, windowMs) ==
    SelectSeq(history, LAMBDA e : e.timestamp > t - windowMs)

\* getRecentFailures(windowMs) at clock t
getRecentFailures(history, t, windowMs) ==
    SelectSeq(history,
              LAMBDA e : /\ e.timestamp > t - windowMs
                         /\ e.level \in {"ERROR", "CRITICAL", "HUMAN_INTERVENTION"})

\* Array.prototype.slice(start) with one argument
slice(a, start) ==
    LET n == Len(a)
        from == IF start < 0
                THEN (IF n + start > 0 THEN n + start ELSE 0)
                ELSE (IF start < n THEN start ELSE n)
    IN SubSeq(a, from + 1, n)

\* getEscalationHistory as a method that returns the oldest events
getEscalationHistoryOldest(history, limit) ==
    SubSeq(history, 1, IF limit < Len(history) THEN limit ELSE Len(history))

\* getEscalationHistory(limit)
getEscalationHistory(history, limit) == slice(history, -limit)

(* ------------------------------ TaskQueue ----------------------------- *)
\* InsertPos as a sort that puts x before the elements it ties with
InsertPosBeforeTies(ts, s, x) ==
    Cardinality({j \in 1..Len(s) : ts[s[j]].priority > ts[x].priority})

\* where a stable sort puts x among the sorted s: behind every element the
\* comparator (a, b) => b.priority - a.priority does not order after x
InsertPos(ts, s, x) ==
    Cardinality({j \in 1..Len(s) : ts[s[j]].priority >= ts[x].priority})

InsertStable(ts, s, x) ==
    LET k == InsertPos(ts, s, x)
    IN SubSeq(s, 1, k) \o <<x>> \o SubSeq(s, k + 1, Len(s))

RECURSIVE sortPrefix(_, _, _)
sortPrefix(ts, q, n) ==
    IF n = 0 THEN <<>> ELSE InsertStable(ts, sortPrefix(ts, q, n - 1), q[n])

\* sortQueue as a sort that leaves the list as it is
sortQueueKeepsOrder(ts, q) == q

\* this.queue.sort((a, b) => b.priority - a.priority): stable, descending
sortQueue(ts, q) == sortPrefix(ts, q, Len(q))

\* canProcess as a guard that forgets the processing flag
canProcessIgnoringFlag(p, q) == ~(Len(q) = 0)

\* the guard of processQueue: TRUE when the call goes on to run a task
canProcess(p, q) == ~(p \/ Len(q) = 0)

\* shift as a read of the head that leaves it in the list
shiftPeeks(q) == [task |-> Head(q), rest |-> q]

\* shift as a pop from the end of the list
shiftLast(q) == [task |-> q[Len(q)], rest |-> SubSeq(q, 1, Len(q) - 1)]

\* this.queue.shift(): the task taken and the queue left
shift(q) == [task |-> Head(q), rest |-> Tail(q)]

\* task.attempts++ at the start of processTask
attemptsAfterStart(task) == task.attempts + 1

\* taskOnSuccess as a processTask that forgets to mark the task
taskOnSuccessStaysRunning(task, c) == task

\* taskOnSuccess as a processTask that takes attempts from the RetryResult
taskOnSuccessCountingRetries(task, c) ==
    [task EXCEPT !.status = "COMPLETED", !.attempts = c.invoked]

\* the task as processTask leaves it when executeWithRetry returned success
\* (c: the call, whose invoked field is the result's attempt count)
taskOnSuccess(task, c) == [task EXCEPT !.status = "COMPLETED"]

\* Array.from(this.tasks.values()).filter(...): the ids of the tasks, in Map
\* insertion order, whose status is one of `statuses`
FilterIds(ts, statuses) ==
    SelectSeq([id \in 1..Len(ts) |-> id], LAMBDA id : ts[id].status \in statuses)

\* this.tasks.get(id): the task in a sequence of one, or no task
getTask(ts, id) == IF id \in 1..Len(ts) THEN <<ts[id]>> ELSE <<>>

\* getActiveTasks as a filter that forgets the running task
getActiveTasksPendingOnly(ts) ==
    FilterIds(ts, {"PENDING"})

\* getActiveTasks: the ids of the tasks returned
getActiveTasks(ts) ==
    FilterIds(ts, {"RUNNING", "PENDING"})

\* getFailedTasks: the ids of the tasks returned
getFailedTasks(ts) ==
    FilterIds(ts, {"FAILED", "ESCALATED"})

\* size(): this.queue.length
size(q) == Len(q)

\* getStatistics
getStatistics(ts) ==
    LET count(status) == Len(FilterIds(ts, {status}))
    IN [total |-> Len(ts),
        pending |-> count("PENDING"),
        running |-> count("RUNNING"),
        completed |-> count("COMPLETED"),
        failed |-> count("FAILED"),
        escalated |-> count("ESCALATED")]

\* taskError as a failure branch that leaves task.error unset
taskErrorUnset(c) == "none"

\* result.error?.message, which processTask stores in task.error when the
\* budget is exhausted (c: the call that returned the result)
taskError(c) == c.lastError

\* budgetExhausted as a test that every failed cycle passes
budgetExhaustedAlways(task) == TRUE

\* the budget test of processTask's failure branch
budgetExhausted(task) == task.attempts >= task.maxAttempts

\* queueAfterFailure as a failure branch that always pushes the task back
queueAfterFailureAlways(ts, q, id, isExhausted) == sortQueue(ts, Append(q, id))

\* the pending list after processTask's failure branch: the task is pushed
\* back and the list sorted only when budget is left
queueAfterFailure(ts, q, id, isExhausted) ==
    IF isExhausted THEN q ELSE sortQueue(ts, Append(q, id))

\* exhaustedStatus as a processTask that never promotes to Escalated
exhaustedStatusFailedOnly(level) == "FAILED"

\* the status processTask gives a task whose budget is exhausted
exhaustedStatus(level) ==
    IF level = "HUMAN_INTERVENTION" THEN "ESCALATED" ELSE "FAILED"

\* escalates as a processTask that escalates whatever the level
escalatesAtEveryLevel(level) == TRUE

\* whether processTask calls escalate for the level checkEscalation returned
escalates(level) == level = "HUMAN_INTERVENTION"

(* ----------------------- PhaseManager operators ---------------------- *)
\* Object.values(LifecyclePhase)
LifecyclePhase == <<"SEEDING", "GROWTH", "SCALING", "MATURITY">>

\* PHASE_CRITERIA; minGovernanceRate and metrics.governanceParticipation are
\* in hundredths (0.1 is 10, 0.25 is 25, 0.4 is 40)
PHASE_CRITERIA ==
    [SEEDING  |-> [minUsers |-> 0, minTVL |-> 0, minTransactions |-> 0,
                   minGovernanceRate |-> 0],
     GROWTH   |-> [minUsers |-> 100, minTVL |-> 10000, minTransactions |-> 500,
                   minGovernanceRate |-> 10],
     SCALING  |-> [minUsers |-> 1000, minTVL |-> 100000, minTransactions |-> 5000,
                   minGovernanceRate |-> 25],
     MATURITY |-> [minUsers |-> 10000, minTVL |-> 1000000,
                   minTransactions |-> 50000, minGovernanceRate |-> 40]]

\* the metrics of a new PhaseManager
initialMetrics ==
    [totalUsers |-> 0, totalValueLocked |-> 0, transactionVolume |-> 0,
     governanceParticipation |-> 0]

\* phases.indexOf(phase)
indexOf(phase) == CHOOSE k \in 1..Len(LifecyclePhase) : LifecyclePhase[k] = phase

\* getNextPhase as a lookup that starts again at the first phase after the last
getNextPhaseWraps(phase) ==
    LifecyclePhase[(indexOf(phase) % Len(LifecyclePhase)) + 1]

\* getNextPhase: the phase after `phase`, "null" after the last one
getNextPhase(phase) ==
    IF indexOf(phase) < Len(LifecyclePhase)
    THEN LifecyclePhase[indexOf(phase) + 1]
    ELSE "null"

\* canTransition as a test that one metric at its minimum satisfies
canTransitionAnyMetric(m, criteria) ==
    \/ m.totalUsers >= criteria.minUsers
    \/ m.totalValueLocked >= criteria.minTVL
    \/ m.transactionVolume >= criteria.minTransactions
    \/ m.governanceParticipation >= criteria.minGovernanceRate

\* canTransition of checkTransition
canTransition(m, criteria) ==
    /\ m.totalUsers >= criteria.minUsers
    /\ m.totalValueLocked >= criteria.minTVL
    /\ m.transactionVolume >= criteria.minTransactions
    /\ m.governanceParticipation >= criteria.minGovernanceRate

\* currentPhase after checkTransition ran with the metrics m
phaseAfterCheck(phase, m) ==
    LET nextPhase == getNextPhase(phase) IN
    IF nextPhase = "null" THEN phase
    ELSE IF canTransition(m, PHASE_CRITERIA[nextPhase]) THEN nextPhase
    ELSE phase

\* { ...m, ...newMetrics }
spread(m, newMetrics) ==
    [f \in DOMAIN m |-> IF f \in DOMAIN newMetrics THEN newMetrics[f] ELSE m[f]]

(* -------------------------------- Init -------------------------------- *)
Init ==
    /\ tasks = <<>>
    /\ queue = <<>>
    /\ processing = FALSE
    /\ circuitBreakers = <<>>
    /\ escalationHistory = <<>>
    /\ taskFailureCounts = <<>>
    /\ now = 0
    /\ call = IdleCall
    /\ lastResult = NoResult
    /\ cycles = [x \in TaskIds |-> 0]
    /\ failRun = [x \in TaskIds |-> 0]
    /\ trips = [x \in TaskIds |-> 0]
    /\ cooled = [x \in TaskIds |-> -1]
    /\ apiCalls = 0
    /\ ret = NoReturn
    /\ currentPhase = LifecyclePhase[1]
    /\ metrics = initialMetrics

(* ------------------------------- actions ------------------------------ *)
\* Handlers of the HTTP server, cron callbacks and timers are macrotasks: they
\* run only while the cycle in flight awaits the operation or the sleep (or
\* when none is in flight), never between two synchronous statements.
atMacrotask == call.pc \in {"idle", "op", "sleep"}

\* taskData.field || dflt: the default replaces an absent field and a falsy
\* value (falsy: '' for a string, 0 for a number; an object is never falsy)
orDefault(taskData, field, falsy, dflt) ==
    IF field \in DOMAIN taskData /\ taskData[field] # falsy
    THEN taskData[field] ELSE dflt

addTask(taskData) ==
    /\ atMacrotask
    /\ Len(tasks) < MaxTasks
    /\ LET id == Len(tasks) + 1
           task == [type |-> orDefault(taskData, "type", "", "generic"),
                    status |-> "PENDING",
                    priority |-> orDefault(taskData, "priority", 0, defaultPriority),
                    attempts |-> 0,
                    maxAttempts |->
                        orDefault(taskData, "maxAttempts", 0, defaultMaxAttempts),
                    error |-> "none",
                    metadata |-> IF "metadata" \in DOMAIN taskData
                                 THEN taskData.metadata ELSE <<>>]
           ts == Append(tasks, task)
       IN /\ tasks' = ts
          /\ queue' = sortQueue(ts, Append(queue, id))
    /\ lastResult' = NoResult
    /\ UNCHANGED <<processing, circuitBreakers, escalationHistory,
                   taskFailureCounts, now, call, cycles, failRun, trips, cooled,
                   apiCalls, ret>>
    /\ UNCHANGED phaseVars

\* processQueue, then processTask and executeWithRetry up to the first breaker
\* check of executeStrategy
processQueue ==
    /\ atMacrotask
    /\ IF canProcess(processing, queue)
       THEN LET sh == shift(queue)
                id == sh.task
                task == tasks[id]
            IN /\ processing' = TRUE
               /\ queue' = sh.rest
               /\ tasks' = [tasks EXCEPT ![id].status = "RUNNING",
                                         ![id].attempts = attemptsAfterStart(task)]
               /\ call' = [pc |-> "check", taskId |-> id,
                           strategies |-> getMultiApproachStrategies(task.type),
                           s |-> 1, i |-> 0, lastError |-> "none", invoked |-> 0,
                           blocked |-> 0]
               /\ cycles' = [cycles EXCEPT ![id] = @ + 1]
               /\ lastResult' = NoResult
               /\ UNCHANGED <<circuitBreakers, escalationHistory, taskFailureCounts,
                              now, failRun, trips, cooled, apiCalls, ret>>
       ELSE UNCHANGED vars
    /\ UNCHANGED phaseVars

\* executeWithRetry: the call state after a strategy ended without success
nextStrategy(c, err) ==
    IF c.s < Len(c.strategies)
    THEN [c EXCEPT !.s = c.s + 1, !.i = 0, !.pc = "check", !.lastError = err]
    ELSE [c EXCEPT !.pc = "record", !.lastError = err]

\* executeStrategy, top of the loop: the breaker check, then the operation is
\* invoked, or the strategy returns 'Circuit breaker open'
attempt ==
    /\ call.pc = "check"
    /\ LET id == call.taskId
           open == isCircuitBreakerOpen(circuitBreakers, id, now)
           cb == breakersAfterCheck(circuitBreakers, id, now)
           wasReset == cb # circuitBreakers
       IN /\ circuitBreakers' = cb
          /\ call' = IF open
                     THEN nextStrategy([call EXCEPT !.blocked = @ + 1],
                                       "Circuit breaker open")
                     ELSE [call EXCEPT !.pc = "op", !.invoked = @ + 1]
          /\ failRun' = IF wasReset THEN [failRun EXCEPT ![id] = 0] ELSE failRun
          /\ trips' = IF wasReset THEN [trips EXCEPT ![id] = 0] ELSE trips
          /\ cooled' = [cooled EXCEPT ![id] =
                           IF open THEN -1
                           ELSE IF wasReset THEN 1
                           ELSE IF @ = -1 THEN -1
                           ELSE IF @ >= 2 THEN 2 ELSE @ + 1]
    /\ lastResult' = NoResult
    /\ UNCHANGED <<tasks, queue, processing, escalationHistory, taskFailureCounts,
                   now, cycles, apiCalls, ret>>
    /\ UNCHANGED phaseVars

\* the operation resolved: executeStrategy and executeWithRetry return success,
\* processTask marks the task, processQueue clears the flag
operationSucceeds ==
    /\ call.pc = "op"
    /\ circuitBreakers' = resetCircuitBreaker(circuitBreakers, call.taskId)
    /\ tasks' = [tasks EXCEPT ![call.taskId] = taskOnSuccess(@, call)]
    /\ processing' = FALSE
    /\ call' = IdleCall
    /\ lastResult' = successResult(call)
    /\ failRun' = [failRun EXCEPT ![call.taskId] = 0]
    /\ trips' = [trips EXCEPT ![call.taskId] = 0]
    /\ cooled' = [cooled EXCEPT ![call.taskId] = -1]
    /\ UNCHANGED <<queue, escalationHistory, taskFailureCounts, now, cycles,
                   apiCalls, ret>>
    /\ UNCHANGED phaseVars

\* the operation rejected: sleep before the next attempt, or the strategy is
\* exhausted
operationFails ==
    /\ call.pc = "op"
    /\ call' = IF moreAttempts(call.i)
               THEN [call EXCEPT !.pc = "sleep", !.lastError = "Operation failed"]
               ELSE nextStrategy(call, "Operation failed")
    /\ lastResult' = NoResult
    /\ UNCHANGED <<tasks, queue, processing, circuitBreakers, escalationHistory,
                   taskFailureCounts, now, cycles, failRun, trips, cooled,
                   apiCalls, ret>>
    /\ UNCHANGED phaseVars

\* the inter-attempt sleep is over
sleepDone ==
    /\ call.pc = "sleep"
    /\ call' = [call EXCEPT !.pc = "check", !.i = @ + 1]
    /\ lastResult' = NoResult
    /\ UNCHANGED <<tasks, queue, processing, circuitBreakers, escalationHistory,
                   taskFailureCounts, now, cycles, failRun, trips, cooled,
                   apiCalls, ret>>
    /\ UNCHANGED phaseVars

\* every strategy is exhausted: recordFailure, executeWithRetry returns failure,
\* processTask takes its failure branch, processQueue clears the flag (in its
\* finally block: also when escalate rejected, which leaves the same state)
exhausted ==
    /\ call.pc = "record"
    /\ LET id == call.taskId
           task == tasks[id]
           level == checkEscalation(task.attempts)
           cb == recordFailure(circuitBreakers, id, now)
       IN /\ circuitBreakers' = cb
          /\ failRun' = [failRun EXCEPT ![id] = @ + 1]
          /\ trips' = [trips EXCEPT ![id] =
                          IF ~atThreshold(circuitBreakers, id) /\ atThreshold(cb, id)
                          THEN @ + 1 ELSE @]
          /\ IF budgetExhausted(task)
             THEN /\ taskFailureCounts' = MapSet(taskFailureCounts, id, task.attempts)
                  /\ tasks' = [tasks EXCEPT ![id].status = exhaustedStatus(level),
                                            ![id].error = taskError(call)]
                  /\ escalationHistory' =
                        IF escalates(level)
                        THEN escalate(escalationHistory, id, level,
                                      <<"Task failed after", task.attempts, "attempts">>,
                                      <<"task", id, "error", call.lastError>>, now)
                        ELSE escalationHistory
                  /\ queue' = queueAfterFailure(tasks', queue, id, TRUE)
             ELSE /\ tasks' = [tasks EXCEPT ![id].status = "PENDING"]
                  /\ queue' = queueAfterFailure(tasks', queue, id, FALSE)
                  /\ UNCHANGED <<escalationHistory, taskFailureCounts>>
    /\ processing' = FALSE
    /\ call' = IdleCall
    /\ lastResult' = failureResult(call)
    /\ UNCHANGED <<now, cycles, cooled, apiCalls, ret>>
    /\ UNCHANGED phaseVars

\* the clock advances
tick ==
    /\ atMacrotask
    /\ now < MaxTicks * TickMs
    /\ now' = now + TickMs
    /\ lastResult' = NoResult
    /\ UNCHANGED <<tasks, queue, processing, circuitBreakers, escalationHistory,
                   taskFailureCounts, call, cycles, failRun, trips, cooled,
                   apiCalls, ret>>
    /\ UNCHANGED phaseVars

Next ==
    \/ \E taskData \in TaskInputs : addTask(taskData)
    \/ processQueue
    \/ attempt
    \/ operationSucceeds
    \/ operationFails
    \/ sleepDone
    \/ exhausted
    \/ tick

Spec == Init /\ [][Next]_vars

(* ------------------ the TaskQueue and its read methods ---------------- *)
\* getTask, getActiveTasks, getFailedTasks and getStatistics are synchronous:
\* a handler calls one between two steps of the cycle in flight, and nothing
\* else runs until the value (held in ret) is returned. The methods read the
\* task map only, which the clock does not touch: the clock stands still here.
callGetTask(id) ==
    /\ atMacrotask
    /\ ret = NoReturn
    /\ ret' = [op |-> "getTask", id |-> id, value |-> getTask(tasks, id)]
    /\ UNCHANGED <<tasks, queue, processing, circuitBreakers, escalationHistory,
                   taskFailureCounts, now, call, lastResult, cycles, failRun, trips,
                   cooled, apiCalls>>
    /\ UNCHANGED phaseVars

callGetActiveTasks ==
    /\ atMacrotask
    /\ ret = NoReturn
    /\ ret' = [op |-> "getActiveTasks", value |-> getActiveTasks(tasks)]
    /\ UNCHANGED <<tasks, queue, processing, circuitBreakers, escalationHistory,
                   taskFailureCounts, now, call, lastResult, cycles, failRun, trips,
                   cooled, apiCalls>>
    /\ UNCHANGED phaseVars

callGetFailedTasks ==
    /\ atMacrotask
    /\ ret = NoReturn
    /\ ret' = [op |-> "getFailedTasks", value |-> getFailedTasks(tasks)]
    /\ UNCHANGED <<tasks, queue, processing, circuitBreakers, escalationHistory,
                   taskFailureCounts, now, call, lastResult, cycles, failRun, trips,
                   cooled, apiCalls>>
    /\ UNCHANGED phaseVars

callGetStatistics ==
    /\ atMacrotask
    /\ ret = NoReturn
    /\ ret' = [op |-> "getStatistics", value |-> getStatistics(tasks)]
    /\ UNCHANGED <<tasks, queue, processing, circuitBreakers, escalationHistory,
                   taskFailureCounts, now, call, lastResult, cycles, failRun, trips,
                   cooled, apiCalls>>
    /\ UNCHANGED phaseVars

\* the read method returns to its caller
readReturns ==
    /\ ret # NoReturn
    /\ ret' = NoReturn
    /\ UNCHANGED <<tasks, queue, processing, circuitBreakers, escalationHistory,
                   taskFailureCounts, now, call, lastResult, cycles, failRun, trips,
                   cooled, apiCalls>>
    /\ UNCHANGED phaseVars

\* the steps of the TaskQueue
QueueNext ==
    \/ \E taskData \in TaskInputs : addTask(taskData)
    \/ processQueue
    \/ attempt
    \/ operationSucceeds
    \/ operationFails
    \/ sleepDone
    \/ exhausted

ReadNext ==
    \/ ret = NoReturn /\ QueueNext
    \/ \E id \in 1..(MaxTasks + 1) : callGetTask(id)
    \/ callGetActiveTasks
    \/ callGetFailedTasks
    \/ callGetStatistics
    \/ readReturns

ReadSpec == Init /\ [][ReadNext]_vars

(* ------------------- the RetryEngine driven directly ------------------ *)
\* executeWithRetry is public: a caller other than the TaskQueue passes any
\* identity and strategy list, awaits the result and may call again, whatever
\* the result was.
Identities == {1, 2}

\* the default of the strategies parameter, and a list of three
StrategyLists ==
    {<<"EXPONENTIAL_BACKOFF">>, getMultiApproachStrategies("NETWORK_ERROR")}

\* executeWithRetry up to the first breaker check of executeStrategy
executeWithRetry(taskId, strategies) ==
    /\ call.pc = "idle"
    /\ apiCalls < MaxEngineCalls
    /\ call' = [pc |-> "check", taskId |-> taskId, strategies |-> strategies,
                s |-> 1, i |-> 0, lastError |-> "none", invoked |-> 0,
                blocked |-> 0]
    /\ cycles' = [cycles EXCEPT ![taskId] = @ + 1]
    /\ apiCalls' = apiCalls + 1
    /\ lastResult' = NoResult
    /\ UNCHANGED <<tasks, queue, processing, circuitBreakers, escalationHistory,
                   taskFailureCounts, now, failRun, trips, cooled, ret>>
    /\ UNCHANGED phaseVars

\* the operation resolved: resetCircuitBreaker, and the result of
\* executeStrategy is returned to the caller
returnSuccess ==
    /\ call.pc = "op"
    /\ circuitBreakers' = resetCircuitBreaker(circuitBreakers, call.taskId)
    /\ call' = IdleCall
    /\ lastResult' = successResult(call)
    /\ failRun' = [failRun EXCEPT ![call.taskId] = 0]
    /\ trips' = [trips EXCEPT ![call.taskId] = 0]
    /\ cooled' = [cooled EXCEPT ![call.taskId] = -1]
    /\ UNCHANGED <<tasks, queue, processing, escalationHistory, taskFailureCounts,
                   now, cycles, apiCalls, ret>>
    /\ UNCHANGED phaseVars

\* every strategy is exhausted: recordFailure, and the failure result is
\* returned to the caller
returnFailure ==
    /\ call.pc = "record"
    /\ LET id == call.taskId
           cb == recordFailure(circuitBreakers, id, now)
       IN /\ circuitBreakers' = cb
          /\ failRun' = [failRun EXCEPT ![id] = @ + 1]
          /\ trips' = [trips EXCEPT ![id] =
                          IF ~atThreshold(circuitBreakers, id) /\ atThreshold(cb, id)
                          THEN @ + 1 ELSE @]
    /\ call' = IdleCall
    /\ lastResult' = failureResult(call)
    /\ UNCHANGED <<tasks, queue, processing, escalationHistory, taskFailureCounts,
                   now, cycles, cooled, apiCalls, ret>>
    /\ UNCHANGED phaseVars

RetryNext ==
    \/ \E x \in Identities, sl \in StrategyLists : executeWithRetry(x, sl)
    \/ attempt
    \/ returnSuccess
    \/ operationFails
    \/ sleepDone
    \/ returnFailure
    \/ tick

RetrySpec == Init /\ [][RetryNext]_vars

\* RetrySpec with the progress the runtime gives: a continuation that is ready
\* runs, an operation that terminates settles (resolves or rejects), a timer
\* set by sleep fires. Callers and the clock are under no obligation.
RetryFairSpec ==
    /\ RetrySpec
    /\ WF_vars(attempt)
    /\ WF_vars(returnSuccess \/ operationFails)
    /\ WF_vars(sleepDone)
    /\ WF_vars(returnFailure)

(* --------------- the pure functions of the RetryEngine ---------------- *)
RetryStrategies ==
    {"EXPONENTIAL_BACKOFF", "LINEAR_BACKOFF", "IMMEDIATE_RETRY", "CIRCUIT_BREAKER",
     "ALTERNATIVE_APPROACH"}

\* error categories given to getMultiApproachStrategies: the three it knows,
\* the default task type, the empty string and a misspelt category
ErrorTypes ==
    {"NETWORK_ERROR", "RATE_LIMIT", "TEMPORARY_FAILURE", "generic", "", "network_error"}

\* retry configurations: the default one, one with no base delay, and one
\* whose base delay is above its maximum and whose jitter factor is 3
RetryConfigs ==
    {[baseDelay |-> configBaseDelay, maxDelay |-> configMaxDelay,
      jitterPercent |-> configJitterPercent],
     [baseDelay |-> 0, maxDelay |-> configMaxDelay,
      jitterPercent |-> configJitterPercent],
     [baseDelay |-> 5 * configBaseDelay, maxDelay |-> 2 * configBaseDelay,
      jitterPercent |-> 300]}

\* Math.random() in tenths: 0.0 .. 0.9
RandomTenths == 0..9

\* a call of getMultiApproachStrategies
callGetMultiApproachStrategies(errorType) ==
    /\ ret' = [op |-> "getMultiApproachStrategies", errorType |-> errorType,
               strategies |-> getMultiApproachStrategies(errorType)]
    /\ UNCHANGED <<tasks, queue, processing, circuitBreakers, escalationHistory,
                   taskFailureCounts, now, call, lastResult, cycles, failRun, trips,
                   cooled, apiCalls>>
    /\ UNCHANGED phaseVars

\* a call of calculateDelay, as executeStrategy makes after failed attempt i
callCalculateDelay(strategy, i, config, randomTenths) ==
    /\ ret' = [op |-> "calculateDelay", strategy |-> strategy, attempt |-> i,
               config |-> config,
               delay |-> delayBeforeJitter(strategy, i, config),
               slept |-> calculateDelay(strategy, i, config, randomTenths)]
    /\ UNCHANGED <<tasks, queue, processing, circuitBreakers, escalationHistory,
                   taskFailureCounts, now, call, lastResult, cycles, failRun, trips,
                   cooled, apiCalls>>
    /\ UNCHANGED phaseVars

FnNext ==
    \/ \E errorType \in ErrorTypes : callGetMultiApproachStrategies(errorType)
    \/ \E strategy \in RetryStrategies, i \in 0..MaxAttemptIndex,
          config \in RetryConfigs, randomTenths \in RandomTenths :
          callCalculateDelay(strategy, i, config, randomTenths)

FnSpec == Init /\ [][FnNext]_vars

(* ---------------- the EscalationManager driven directly --------------- *)
\* The methods of the EscalationManager are public; performHealthChecks is
\* also called by the scheduler every 15 minutes.

\* a history of old failures (a full window old), then warn warnings and
\* recent failures of the three failure levels in turn, recorded at clock t
SeedHistory(old, warn, recent, t) ==
    [j \in 1..(old + warn + recent) |->
        [id |-> j,
         taskId |-> 1 + (j % 2),
         level |-> IF j <= old THEN "ERROR"
                   ELSE IF j <= old + warn THEN "WARNING"
                   ELSE Levels[3 + (j % 3)],
         message |-> <<"seed">>,
         timestamp |-> IF j <= old THEN t - healthCheckWindow ELSE t,
         metadata |-> <<>>]]

\* the manager after some escalate calls: histories around the limit of
\* performHealthChecks
EscInit ==
    /\ tasks = <<>>
    /\ queue = <<>>
    /\ processing = FALSE
    /\ circuitBreakers = <<>>
    /\ now = healthCheckWindow
    /\ \E old \in {0, healthCheckLimit + 1}, warn \in {0, healthCheckLimit + 1},
          recent \in {0, healthCheckLimit - 1, healthCheckLimit, healthCheckLimit + 1} :
          escalationHistory = SeedHistory(old, warn, recent, now)
    /\ taskFailureCounts = <<>>
    /\ call = IdleCall
    /\ lastResult = NoResult
    /\ cycles = [x \in TaskIds |-> 0]
    /\ failRun = [x \in TaskIds |-> 0]
    /\ trips = [x \in TaskIds |-> 0]
    /\ cooled = [x \in TaskIds |-> -1]
    /\ apiCalls = 0
    /\ ret = NoReturn
    /\ currentPhase = LifecyclePhase[1]
    /\ metrics = initialMetrics

\* the arguments callers give to escalate: every level, with and without
\* metadata (<<>> is the default {})
EscalateInputs ==
    {[taskId |-> 1, level |-> "INFO", message |-> <<"started">>, metadata |-> <<>>],
     [taskId |-> 2, level |-> "WARNING", message |-> <<"slow">>,
      metadata |-> <<"ms", 900>>],
     [taskId |-> 1, level |-> "ERROR", message |-> <<"failed">>,
      metadata |-> <<"attempt", 3>>],
     [taskId |-> 2, level |-> "CRITICAL", message |-> <<"failed">>, metadata |-> <<>>],
     [taskId |-> 1, level |-> "HUMAN_INTERVENTION", message |-> <<"stuck">>,
      metadata |-> <<"attempt", 10>>]}

\* the limits callers give to getEscalationHistory
HistoryLimits == {0, 1, 5, defaultHistoryLimit}

\* a call of escalate: the event is pushed, then the handler of the level runs
callEscalate(taskId, level, message, metadata, outcome) ==
    /\ apiCalls < MaxManagerCalls
    /\ apiCalls' = apiCalls + 1
    /\ escalationHistory' =
          escalate(escalationHistory, taskId, level, message, metadata, now)
    /\ ret' = [op |-> "escalate", taskId |-> taskId, level |-> level,
               message |-> message, metadata |-> metadata,
               threw |-> escalateThrows(level, outcome)]
    /\ UNCHANGED <<tasks, queue, processing, circuitBreakers, taskFailureCounts, now,
                   call, lastResult, cycles, failRun, trips, cooled>>
    /\ UNCHANGED phaseVars

\* performHealthChecks (the events it raises are warnings, whose handler only
\* writes to the log)
performHealthChecks ==
    /\ apiCalls < MaxManagerCalls
    /\ apiCalls' = apiCalls + 1
    /\ LET recentFailures ==
               getRecentFailures(escalationHistory, now, healthCheckWindow)
           n == Len(recentFailures)
       IN /\ escalationHistory' =
                IF n > healthCheckLimit
                THEN escalate(escalationHistory, systemId, "WARNING",
                              <<"High number of recent failures:", n>>,
                              <<"count", n>>, now)
                ELSE escalationHistory
          /\ ret' = [op |-> "performHealthChecks", count |-> n]
    /\ UNCHANGED <<tasks, queue, processing, circuitBreakers, taskFailureCounts, now,
                   call, lastResult, cycles, failRun, trips, cooled>>
    /\ UNCHANGED phaseVars

\* a call of getEscalationHistory
callGetEscalationHistory(limit) ==
    /\ apiCalls < MaxManagerCalls
    /\ apiCalls' = apiCalls + 1
    /\ ret' = [op |-> "getEscalationHistory", limit |-> limit,
               events |-> getEscalationHistory(escalationHistory, limit)]
    /\ UNCHANGED <<tasks, queue, processing, circuitBreakers, escalationHistory,
                   taskFailureCounts, now, call, lastResult, cycles, failRun, trips,
                   cooled>>
    /\ UNCHANGED phaseVars

\* the clock advances by half a window of performHealthChecks
tickWindow ==
    /\ now < healthCheckWindow + MaxTicks * (healthCheckWindow \div 2)
    /\ now' = now + healthCheckWindow \div 2
    /\ ret' = NoReturn
    /\ UNCHANGED <<tasks, queue, processing, circuitBreakers, escalationHistory,
                   taskFailureCounts, call, lastResult, cycles, failRun, trips,
                   cooled, apiCalls>>
    /\ UNCHANGED phaseVars

EscNext ==
    \/ \E d \in EscalateInputs, o \in SideEffectOutcomes :
          callEscalate(d.taskId, d.level, d.message, d.metadata, o)
    \/ performHealthChecks
    \/ \E limit \in HistoryLimits : callGetEscalationHistory(limit)
    \/ tickWindow

EscSpec == EscInit /\ [][EscNext]_vars

\* a call of checkEscalation: the count is stored, the level returned
callCheckEscalation(taskId, failures) ==
    /\ taskFailureCounts' = MapSet(taskFailureCounts, taskId, failures)
    /\ ret' = [op |-> "checkEscalation", taskId |-> taskId, failures |-> failures,
               level |-> checkEscalation(failures)]
    /\ UNCHANGED <<tasks, queue, processing, circuitBreakers, escalationHistory, now,
                   call, lastResult, cycles, failRun, trips, cooled, apiCalls>>
    /\ UNCHANGED phaseVars

ClassifyNext ==
    \E x \in Identities, c \in 0..MaxFailures : callCheckEscalation(x, c)

ClassifySpec == EscInit /\ [][ClassifyNext]_vars

(* ----------------- the PhaseManager driven by its callers -------------- *)
\* PHASE_CRITERIA's minimum for the metric f
minimumOf(phase, f) ==
    CASE f = "totalUsers" -> PHASE_CRITERIA[phase].minUsers
      [] f = "totalValueLocked" -> PHASE_CRITERIA[phase].minTVL
      [] f = "transactionVolume" -> PHASE_CRITERIA[phase].minTransactions
      [] f = "governanceParticipation" -> PHASE_CRITERIA[phase].minGovernanceRate

\* the values callers report for the metric f: every phase's minimum, and one
\* below the minimum of GROWTH
MetricValues(f) ==
    {minimumOf(LifecyclePhase[k], f) : k \in 1..Len(LifecyclePhase)}
    \cup {minimumOf("GROWTH", f) - 1}

\* the arguments callers give to updateMetrics (Partial<PhaseMetrics>): one
\* metric alone, or all four at the minimums of one phase
MetricInputs ==
    UNION {{[g \in {f} |-> v] : v \in MetricValues(f)} : f \in DOMAIN initialMetrics}
    \cup {[f \in DOMAIN initialMetrics |-> minimumOf(LifecyclePhase[k], f)] :
             k \in 1..Len(LifecyclePhase)}

\* await phaseManager.updateMetrics(newMetrics): the merge, then
\* checkTransition, which runs to its end without suspending before
\* transitionToPhase has assigned currentPhase
updateMetrics(newMetrics) ==
    /\ metrics' = spread(metrics, newMetrics)
    /\ currentPhase' = phaseAfterCheck(currentPhase, metrics')
    /\ ret' = [op |-> "updateMetrics"]
    /\ UNCHANGED <<tasks, queue, processing, circuitBreakers, escalationHistory,
                   taskFailureCounts, now, call, lastResult, cycles, failRun, trips,
                   cooled, apiCalls>>

\* await phaseManager.checkTransition() (the cron callback)
checkTransition ==
    /\ currentPhase' = phaseAfterCheck(currentPhase, metrics)
    /\ ret' = [op |-> "checkTransition"]
    /\ UNCHANGED <<tasks, queue, processing, circuitBreakers, escalationHistory,
                   taskFailureCounts, now, call, lastResult, cycles, failRun, trips,
                   cooled, apiCalls, metrics>>

PhaseNext ==
    \/ \E newMetrics \in MetricInputs : updateMetrics(newMetrics)
    \/ checkTransition

PhaseSpec == Init /\ [][PhaseNext]_vars

(* ============================= properties ============================= *)
TaskSet == 1..Len(tasks)
Terminal == {"COMPLETED", "FAILED", "ESCALATED"}
Running == {id \in TaskSet : tasks[id].status = "RUNNING"}
InQueue(id) == \E j \in 1..Len(queue) : queue[j] = id

(* C1: at most one task is Running at any moment, and a processQueue call    *)
(* made while a cycle is in flight or while the pending list is empty        *)
(* changes nothing: no task, not the pending list, no breaker record, not    *)
(* the escalation history.                                                   *)
C1_SingleFlight ==
    /\ [](Cardinality(Running) <= 1)
    /\ [][(processing \/ queue = <<>>) /\ processQueue => UNCHANGED vars]_vars

\* a cycle is in flight, one task is Running and another is pending: a
\* processQueue call here is the re-entrant one
C1_Witness ==
    /\ processing
    /\ queue # <<>>
    /\ Cardinality(Running) = 1

(* C2: every task starts Pending with attempts 0; a status changes only     *)
(* along Pending->Running, Running->Completed, Running->Pending,            *)
(* Running->Failed, Running->Escalated; a Completed, Failed or Escalated    *)
(* task keeps its status and attempts for ever and is never in the pending  *)
(* list.                                                                    *)
Allowed ==
    {<<"PENDING", "RUNNING">>, <<"RUNNING", "COMPLETED">>, <<"RUNNING", "PENDING">>,
     <<"RUNNING", "FAILED">>, <<"RUNNING", "ESCALATED">>}

C2_StateMachine ==
    /\ [][/\ Len(tasks') >= Len(tasks)
          /\ \A id \in 1..Len(tasks') :
                IF id \in TaskSet
                THEN /\ tasks'[id].status # tasks[id].status =>
                           <<tasks[id].status, tasks'[id].status>> \in Allowed
                     /\ tasks[id].status \in Terminal =>
                           /\ tasks'[id].status = tasks[id].status
                           /\ tasks'[id].attempts = tasks[id].attempts
                ELSE tasks'[id].status = "PENDING" /\ tasks'[id].attempts = 0]_vars
    /\ [](\A id \in TaskSet : tasks[id].status \in Terminal => ~InQueue(id))

\* one task ended Failed, and a later cycle ran the other task to Completed
C2_Witness ==
    \E a, b \in TaskSet :
        /\ tasks[a].status = "FAILED"
        /\ tasks[b].status = "COMPLETED"
        /\ lastResult.taskId = b

(* C3: in every Completed, Failed or Escalated task attempts <= maxAttempts, *)
(* for every maxAttempts value addTask accepts.                              *)
C3_AttemptsWithinBudget ==
    \A id \in TaskSet :
        tasks[id].status \in Terminal => tasks[id].attempts <= tasks[id].maxAttempts

(* C4: after every enqueue and every re-enqueue the pending list is sorted  *)
(* by descending priority, and tasks of equal priority are in the order in  *)
(* which they were put into the list: the task pushed goes behind every     *)
(* pending task of greater or equal priority and before every one of lower  *)
(* priority, and the others keep their order.                               *)
Prio(ts, id) == ts[id].priority
Without(q, k) == SubSeq(q, 1, k - 1) \o SubSeq(q, k + 1, Len(q))

C4_SortedStable ==
    /\ [](\A j \in 1..Len(queue) : \A k \in 1..Len(queue) :
              j < k => Prio(tasks, queue[j]) >= Prio(tasks, queue[k]))
    /\ [][Len(queue') = Len(queue) + 1 =>
             \E k \in 1..Len(queue') :
                 /\ Without(queue', k) = queue
                 /\ \A j \in 1..Len(queue') :
                       /\ j < k => Prio(tasks', queue'[j]) >= Prio(tasks', queue'[k])
                       /\ j > k => Prio(tasks', queue'[j]) < Prio(tasks', queue'[k])]_vars

\* a task re-enqueued after a failed cycle stands behind a task of the same
\* priority that was enqueued later
C4_Witness ==
    /\ Len(queue) = 2
    /\ queue[1] > queue[2]
    /\ Prio(tasks, queue[1]) = Prio(tasks, queue[2])
    /\ cycles[queue[2]] > 0

(* C5: the task a cycle runs is a pending task whose priority is >= that of *)
(* every other pending task, and of two tasks enqueued with equal priority  *)
(* the one enqueued first starts its first cycle first.                     *)
C5_HighestFirst ==
    /\ [][~processing /\ processing' =>
             /\ InQueue(call'.taskId)
             /\ tasks[call'.taskId].status = "PENDING"
             /\ \A j \in 1..Len(queue) :
                   Prio(tasks, call'.taskId) >= Prio(tasks, queue[j])]_vars
    /\ [](\A a, b \in TaskSet :
              a < b /\ Prio(tasks, a) = Prio(tasks, b) /\ cycles[b] > 0 => cycles[a] > 0)

\* a task enqueued later with a higher priority ran before the earlier one,
\* which is still waiting for its first cycle
C5_Witness ==
    \E a, b \in TaskSet :
        /\ a < b
        /\ Prio(tasks, b) > Prio(tasks, a)
        /\ cycles[b] > 0
        /\ cycles[a] = 0
        /\ InQueue(a)

(* C6: a task whose operation succeeds in its first cycle ends that cycle   *)
(* Completed with attempts = 1, whatever number of attempts the retry       *)
(* engine made inside the cycle.                                            *)
C6_RoundTrip ==
    [][call.pc = "op" /\ call'.pc = "idle" /\ cycles[call.taskId] = 1 =>
          /\ lastResult'.success
          /\ tasks'[call.taskId].status = "COMPLETED"
          /\ tasks'[call.taskId].attempts = 1]_vars

\* a first cycle that succeeded at a later attempt than the first
C6_Witness ==
    /\ lastResult.success
    /\ lastResult.invoked >= 2
    /\ cycles[lastResult.taskId] = 1
    /\ tasks[lastResult.taskId].status = "COMPLETED"

(* C7 (as stated): a task that failed in every cycle and whose maxAttempts  *)
(* is below the HumanIntervention threshold is Failed, and escalate has     *)
(* been invoked for it with the level classify returns for its failures.    *)
EventsOf(id) ==
    {j \in 1..Len(escalationHistory) : escalationHistory[j].taskId = id}

Budget(id) == IF tasks[id].maxAttempts < 1 THEN 1 ELSE tasks[id].maxAttempts

C8_EscalatedIffHumanIntervention ==
    \A id \in TaskSet :
        /\ tasks[id].status = "ESCALATED" <=>
              /\ tasks[id].status \in {"FAILED", "ESCALATED"}
              /\ tasks[id].attempts >= 2 * escalationThreshold
        /\ tasks[id].status = "ESCALATED" =>
              /\ tasks[id].attempts >= tasks[id].maxAttempts
              /\ \E j \in EventsOf(id) :
                    escalationHistory[j].level = "HUMAN_INTERVENTION"

\* a task Escalated at the threshold, its breaker having opened on the way
C8_Witness ==
    \E id \in TaskSet :
        /\ tasks[id].status = "ESCALATED"
        /\ tasks[id].attempts = 2 * escalationThreshold
        /\ atThreshold(circuitBreakers, id)

C10_TripsOnce ==
    \A x \in TaskIds :
        /\ trips[x] <= 1
        /\ failRun[x] >= circuitBreakerThreshold <=> trips[x] = 1
        /\ failRun[x] >= circuitBreakerThreshold <=> atThreshold(circuitBreakers, x)
        /\ failRun[x] > 0 =>
              /\ x \in DOMAIN circuitBreakers
              /\ circuitBreakers[x].failures = failRun[x]

\* well past the threshold: several short-circuited calls have failed since
\* the breaker opened
C10_Witness ==
    \E x \in TaskIds :
        /\ failRun[x] >= circuitBreakerThreshold + 3
        /\ trips[x] = 1

(* C11: the breaker of an identity is checked before every attempt and the  *)
(* operation is not invoked while it is open: no invocation is under way    *)
(* with the record at the threshold, and an executeWithRetry call made      *)
(* while the breaker stays open invokes the operation zero times, skips     *)
(* each of its strategies with the breaker-open error and returns failure.  *)
C11_OpenBreakerSkipsCall ==
    /\ call.pc \in {"op", "sleep"} => ~atThreshold(circuitBreakers, call.taskId)
    /\ LET r == lastResult
           x == r.taskId
       IN /\ x # 0
          /\ x \in DOMAIN circuitBreakers
          /\ circuitBreakers[x].failures > circuitBreakerThreshold
          => /\ ~r.success
             /\ r.invoked = 0
             /\ r.error = "Circuit breaker open"
             /\ r.blocked * configMaxAttempts = r.attempts

\* a call of three strategies has just returned, each strategy skipped
C11_Witness ==
    /\ lastResult.taskId # 0
    /\ lastResult.blocked = 3
    /\ lastResult.invoked = 0
    /\ lastResult.error = "Circuit breaker open"

(* C12: as soon as one invocation of the operation succeeds,                *)
(* executeWithRetry returns success naming the strategy under which it      *)
(* succeeded, with no further invocation and no later strategy tried, and   *)
(* the breaker record of the identity is deleted, so that the breaker       *)
(* opens again only after threshold new consecutive failed calls.           *)
C12_SuccessEndsCallAndClearsBreaker ==
    /\ [][call.pc = "op" /\ call'.pc = "idle" =>
             /\ lastResult'.success
             /\ lastResult'.taskId = call.taskId
             /\ lastResult'.strategy = call.strategies[call.s]
             /\ lastResult'.invoked = call.invoked
             /\ call.taskId \notin DOMAIN circuitBreakers']_vars
    /\ [](lastResult.success => call.pc = "idle")
    /\ [](\A x \in Identities :
              atThreshold(circuitBreakers, x) =>
                  failRun[x] >= circuitBreakerThreshold)

\* no time has passed; of seven calls for x the last five failed and opened
\* the breaker, so that the failure or failures recorded by the first two
\* were cleared by a success
C12_Witness ==
    \E x \in Identities :
        /\ now = 0
        /\ cycles[x] = 7
        /\ failRun[x] = circuitBreakerThreshold
        /\ atThreshold(circuitBreakers, x)
        /\ circuitBreakers[x].failures = circuitBreakerThreshold

(* C13: an executeWithRetry call in which every strategy is exhausted       *)
(* increases the failure count of its identity by exactly one, however many *)
(* times the operation failed during the call, and returns success = false  *)
(* with the last observed error and the last strategy of the sequence; a    *)
(* call that succeeds records no failure.                                   *)
FailuresOf(cb, x) == IF x \in DOMAIN cb THEN cb[x].failures ELSE 0

C13_OneFailurePerExhaustedCall ==
    /\ [][call.pc = "record" /\ call'.pc = "idle" =>
             /\ FailuresOf(circuitBreakers', call.taskId) =
                    FailuresOf(circuitBreakers, call.taskId) + 1
             /\ \A y \in Identities \ {call.taskId} :
                    FailuresOf(circuitBreakers', y) = FailuresOf(circuitBreakers, y)
             /\ ~lastResult'.success
             /\ lastResult'.taskId = call.taskId
             /\ lastResult'.error = call.lastError
             /\ lastResult'.strategy = call.strategies[Len(call.strategies)]]_vars
    /\ [][call.pc = "op" /\ call'.pc = "idle" =>
             \A y \in Identities :
                 FailuresOf(circuitBreakers', y) <= FailuresOf(circuitBreakers, y)]_vars
    /\ [](lastResult.taskId # 0 /\ ~lastResult.success =>
              lastResult.error = IF lastResult.invoked > 0 THEN "Operation failed"
                                 ELSE "Circuit breaker open")

\* a call of three strategies failed after nine invocations of the operation;
\* it is the second failed call for its identity
C13_Witness ==
    /\ lastResult.taskId # 0
    /\ ~lastResult.success
    /\ lastResult.invoked = 3 * configMaxAttempts
    /\ lastResult.strategy = "CIRCUIT_BREAKER"
    /\ FailuresOf(circuitBreakers, lastResult.taskId) = 2

(* C14: the timestamp against which the cool-down is measured is the time   *)
(* of the failure that tripped the breaker and does not move while the      *)
(* breaker is open, also when executeWithRetry is called (and               *)
(* short-circuited) for the identity during the window: a record that is at *)
(* the threshold before and after a step keeps its timestamp.               *)
C14_OpenedAtFixedWhileOpen ==
    [][\A x \in TaskIds :
          atThreshold(circuitBreakers, x) /\ atThreshold(circuitBreakers', x) =>
              circuitBreakers'[x].lastFailure = circuitBreakers[x].lastFailure]_vars

(* C15: for every identity and failure count c >= 0, with T the base        *)
(* threshold, checkEscalation returns Info if c = 0, Warning if             *)
(* 0 < c < T/2, Error if T/2 <= c < T, Critical if T <= c < 2T and          *)
(* HumanIntervention if c >= 2T; it is monotonic non-decreasing in c under  *)
(* the order Info < Warning < Error < Critical < HumanIntervention.         *)
Rank(level) == CHOOSE k \in 1..Len(Levels) : Levels[k] = level

LadderLevel(c) ==
    CASE c = 0 -> "INFO"
      [] 0 < c /\ 2 * c < escalationThreshold -> "WARNING"
      [] escalationThreshold <= 2 * c /\ c < escalationThreshold -> "ERROR"
      [] escalationThreshold <= c /\ c < 2 * escalationThreshold -> "CRITICAL"
      [] c >= 2 * escalationThreshold -> "HUMAN_INTERVENTION"

C15_Ladder ==
    /\ ret.op = "checkEscalation" => ret.level = LadderLevel(ret.failures)
    /\ \A c \in 1..MaxFailures :
          Rank(checkEscalation(c - 1)) <= Rank(checkEscalation(c))

\* checkEscalation was called with a count of exactly T, then of exactly 2T
C15_Witness ==
    /\ ret.op = "checkEscalation"
    /\ ret.failures = 2 * escalationThreshold
    /\ ret.level = "HUMAN_INTERVENTION"
    /\ \E x \in DOMAIN taskFailureCounts :
          /\ x # ret.taskId
          /\ taskFailureCounts[x] = escalationThreshold

(* C16: checkEscalation is a pure function: a call leaves the event history *)
(* and the failure-count index of the EscalationManager unchanged.          *)
C16_ClassifyLeavesStateUnchanged ==
    [][ret'.op = "checkEscalation" =>
          /\ escalationHistory' = escalationHistory
          /\ taskFailureCounts' = taskFailureCounts]_vars

(* C17: for every limit >= 1 and every history of n events,                 *)
(* getEscalationHistory(limit) returns exactly min(limit, n) events, the    *)
(* most recently recorded ones, in the order in which they were recorded.   *)
C17_MostRecentOldestFirst ==
    ret.op = "getEscalationHistory" /\ ret.limit >= 1 =>
        LET n == Len(escalationHistory)
            k == IF ret.limit < n THEN ret.limit ELSE n
        IN /\ Len(ret.events) = k
           /\ \A j \in 1..k : ret.events[j] = escalationHistory[n - k + j]

\* getEscalationHistory(5) after 20 events returned events 16..20
C17_Witness ==
    /\ ret.op = "getEscalationHistory"
    /\ ret.limit = 5
    /\ Len(escalationHistory) = 20
    /\ [j \in 1..5 |-> ret.events[j].id] = <<16, 17, 18, 19, 20>>

(* C18: every escalate call, for every level including Info, appends        *)
(* exactly one event carrying the given taskId, level, message and metadata *)
(* to the end of the history; the history is append-only: no step removes,  *)
(* reorders or changes an event already recorded.                           *)
C18_AppendOnly ==
    /\ [][apiCalls' # apiCalls /\ ret'.op = "escalate" =>
             /\ Len(escalationHistory') = Len(escalationHistory) + 1
             /\ LET e == escalationHistory'[Len(escalationHistory')]
                IN /\ e.taskId = ret'.taskId
                   /\ e.level = ret'.level
                   /\ e.message = ret'.message
                   /\ e.metadata = ret'.metadata
                   /\ e.timestamp = now]_vars
    /\ [][/\ Len(escalationHistory') >= Len(escalationHistory)
          /\ SubSeq(escalationHistory', 1, Len(escalationHistory)) =
                escalationHistory]_vars

\* an escalate call of level Info has just appended its event to a history
\* of twenty
C18_Witness ==
    /\ ret.op = "escalate"
    /\ ret.level = "INFO"
    /\ Len(escalationHistory) = 21
    /\ escalationHistory[21].level = "INFO"
    /\ escalationHistory[21].message = <<"started">>

(* C19: performHealthChecks appends exactly one Warning event with identity *)
(* 'system' when the number of Error, Critical and HumanIntervention events *)
(* inside the recent window is strictly greater than 10, and leaves the     *)
(* history unchanged otherwise; the Warning events it creates are not       *)
(* counted as failures by a later health check.                             *)
RecentFailureCount ==
    Cardinality({j \in 1..Len(escalationHistory) :
                    /\ escalationHistory[j].level \in
                          {"ERROR", "CRITICAL", "HUMAN_INTERVENTION"}
                    /\ now - escalationHistory[j].timestamp < healthCheckWindow})

C19_HealthCheck ==
    [][apiCalls' # apiCalls /\ ret'.op = "performHealthChecks" =>
          IF RecentFailureCount > healthCheckLimit
          THEN /\ Len(escalationHistory') = Len(escalationHistory) + 1
               /\ SubSeq(escalationHistory', 1, Len(escalationHistory)) =
                     escalationHistory
               /\ escalationHistory'[Len(escalationHistory')].level = "WARNING"
               /\ escalationHistory'[Len(escalationHistory')].taskId = systemId
               /\ RecentFailureCount' = RecentFailureCount
          ELSE escalationHistory' = escalationHistory]_vars

\* two health checks in a row found the same eleven recent failures and
\* raised a warning each
C19_Witness ==
    /\ ret.op = "performHealthChecks"
    /\ ret.count = healthCheckLimit + 1
    /\ Len(escalationHistory) = healthCheckLimit + 3
    /\ \A j \in {healthCheckLimit + 2, healthCheckLimit + 3} :
          /\ escalationHistory[j].taskId = systemId
          /\ escalationHistory[j].level = "WARNING"

C21_EnqueueCarriesInput ==
    [][\A taskData \in TaskInputs :
          addTask(taskData) =>
              LET id == Len(tasks')
                  task == tasks'[id]
              IN /\ id = Len(tasks) + 1
                 /\ task.status = "PENDING"
                 /\ task.attempts = 0
                 /\ \A field \in DOMAIN taskData : task[field] = taskData[field]
                 /\ \E j \in 1..Len(queue') : queue'[j] = id]_vars

(* C22: in every reachable state every Failed or Escalated task has its     *)
(* error populated, a task that has not had a failed cycle has none, and    *)
(* the error is set only by a failed cycle.                                 *)
C22_ErrorOnlyAfterFailure ==
    [](\A id \in TaskSet :
          /\ tasks[id].status \in {"FAILED", "ESCALATED"} => tasks[id].error # "none"
          /\ tasks[id].error # "none" =>
                /\ failRun[id] >= 1
                /\ tasks[id].error \in {"Operation failed", "Circuit breaker open"}
          /\ cycles[id] = 0 => tasks[id].error = "none")

\* one task ended Escalated by a short-circuited cycle, one ended Failed by
\* a cycle whose last attempt failed
C22_Witness ==
    \E a, b \in TaskSet :
        /\ tasks[a].status = "ESCALATED"
        /\ tasks[a].error = "Circuit breaker open"
        /\ tasks[b].status = "FAILED"
        /\ tasks[b].error = "Operation failed"

(* C23: getMultiApproachStrategies is total and deterministic: for every    *)
(* category string it returns a non-empty sequence, [exponential, linear,   *)
(* circuit-breaker] for the network class, [linear, exponential] for the    *)
(* rate-limit class, [immediate, exponential] for the transient class and   *)
(* [exponential, alternative-approach] for every other string, and it       *)
(* changes no state.                                                        *)
C23_StrategyLookup ==
    ret.op = "getMultiApproachStrategies" =>
        /\ Len(ret.strategies) >= 1
        /\ ret.errorType = "NETWORK_ERROR" =>
              ret.strategies =
                  <<"EXPONENTIAL_BACKOFF", "LINEAR_BACKOFF", "CIRCUIT_BREAKER">>
        /\ ret.errorType = "RATE_LIMIT" =>
              ret.strategies = <<"LINEAR_BACKOFF", "EXPONENTIAL_BACKOFF">>
        /\ ret.errorType = "TEMPORARY_FAILURE" =>
              ret.strategies = <<"IMMEDIATE_RETRY", "EXPONENTIAL_BACKOFF">>
        /\ ret.errorType \notin {"NETWORK_ERROR", "RATE_LIMIT", "TEMPORARY_FAILURE"} =>
              ret.strategies = <<"EXPONENTIAL_BACKOFF", "ALTERNATIVE_APPROACH">>
        /\ circuitBreakers = <<>>
        /\ call = IdleCall
        /\ tasks = <<>>
        /\ escalationHistory = <<>>

\* the lookup was made for a category it does not know
C23_Witness ==
    /\ ret.op = "getMultiApproachStrategies"
    /\ ret.errorType = "network_error"
    /\ ret.strategies[2] = "ALTERNATIVE_APPROACH"

(* C26: before jitter the delay after failed attempt i (zero-based) is      *)
(* min(baseDelay * 2^i, maxDelay) for exponential backoff,                  *)
(* min(baseDelay * (i+1), maxDelay) for linear backoff, 0 for immediate     *)
(* retry and baseDelay for the circuit-breaker and alternative-approach     *)
(* strategies; for exponential and linear it is non-decreasing in i and     *)
(* never above maxDelay, and the delay finally slept is never negative      *)
(* (configurations with baseDelay >= 0 and maxDelay >= 0).                  *)
Capped(x, cap) == IF x <= cap THEN x ELSE cap

C26_Delay ==
    ret.op = "calculateDelay" =>
        LET n == ret.attempt
            base == ret.config.baseDelay
            cap == ret.config.maxDelay
        IN /\ ret.strategy = "EXPONENTIAL_BACKOFF" => ret.delay = Capped(base * 2^n, cap)
           /\ ret.strategy = "LINEAR_BACKOFF" => ret.delay = Capped(base * (n + 1), cap)
           /\ ret.strategy = "IMMEDIATE_RETRY" => ret.delay = 0
           /\ ret.strategy \in {"CIRCUIT_BREAKER", "ALTERNATIVE_APPROACH"} =>
                 ret.delay = base
           /\ ret.strategy \in {"EXPONENTIAL_BACKOFF", "LINEAR_BACKOFF"} =>
                 /\ ret.delay <= cap
                 /\ n > 0 => delayBeforeJitter(ret.strategy, n - 1, ret.config) <= ret.delay
           /\ ret.slept >= 0

\* exponential backoff under the default configuration, at the first attempt
\* index whose delay is capped, with negative jitter
C26_Witness ==
    /\ ret.op = "calculateDelay"
    /\ ret.strategy = "EXPONENTIAL_BACKOFF"
    /\ ret.config.baseDelay = configBaseDelay
    /\ ret.attempt = 5
    /\ ret.delay = configMaxDelay
    /\ ret.slept < ret.delay * 1000

(* C24: getTask, getActiveTasks, getFailedTasks and getStatistics change no *)
(* state; getActiveTasks returns exactly the tasks with status Pending or   *)
(* Running, getFailedTasks exactly those with status Failed or Escalated,   *)
(* and getStatistics returns per-status counts whose sum equals the number  *)
(* of tasks ever enqueued.                                                  *)
Members(seq) == {seq[j] : j \in 1..Len(seq)}
WithStatus(S) == {id \in TaskSet : tasks[id].status \in S}

C24_PureReads ==
    /\ [][ret'.op \in {"getTask", "getActiveTasks", "getFailedTasks", "getStatistics"}
            => UNCHANGED <<tasks, queue, processing, circuitBreakers,
                           escalationHistory, taskFailureCounts, call>>]_vars
    /\ [](ret.op = "getTask" =>
              ret.value = IF ret.id \in TaskSet THEN <<tasks[ret.id]>> ELSE <<>>)
    /\ [](ret.op = "getActiveTasks" =>
              /\ Members(ret.value) = WithStatus({"PENDING", "RUNNING"})
              /\ Len(ret.value) = Cardinality(Members(ret.value)))
    /\ [](ret.op = "getFailedTasks" =>
              /\ Members(ret.value) = WithStatus({"FAILED", "ESCALATED"})
              /\ Len(ret.value) = Cardinality(Members(ret.value)))
    /\ [](ret.op = "getStatistics" =>
              LET v == ret.value
              IN /\ v.total = Len(tasks)
                 /\ v.pending = Cardinality(WithStatus({"PENDING"}))
                 /\ v.running = Cardinality(WithStatus({"RUNNING"}))
                 /\ v.completed = Cardinality(WithStatus({"COMPLETED"}))
                 /\ v.failed = Cardinality(WithStatus({"FAILED"}))
                 /\ v.escalated = Cardinality(WithStatus({"ESCALATED"}))
                 /\ v.pending + v.running + v.completed + v.failed + v.escalated
                       = v.total)

\* getActiveTasks returned a Running and a Pending task
C24_Witness ==
    /\ ret.op = "getActiveTasks"
    /\ Len(ret.value) = 2
    /\ \E id \in TaskSet : tasks[id].status = "RUNNING"

(* C25: a failed cycle that leaves budget only re-enqueues the task: it     *)
(* calls neither checkEscalation nor escalate and leaves the escalation     *)
(* history and the failure-count index unchanged; checkEscalation is called *)
(* for a task at most once, in the cycle in which its budget is exhausted.  *)
(* (The index holds a task exactly from its checkEscalation call on.)       *)
C25_ClassifiedOnExhaustionOnly ==
    [](/\ DOMAIN taskFailureCounts \subseteq TaskSet
       /\ \A id \in TaskSet :
             /\ id \in DOMAIN taskFailureCounts <=>
                   tasks[id].status \in {"FAILED", "ESCALATED"}
             /\ id \in DOMAIN taskFailureCounts =>
                   /\ taskFailureCounts[id] = tasks[id].attempts
                   /\ tasks[id].attempts >= tasks[id].maxAttempts
                   /\ tasks[id].attempts = cycles[id]
             /\ tasks[id].status \in {"PENDING", "RUNNING"} => EventsOf(id) = {})

\* a task is pending again after two failed cycles, unclassified, while
\* another task has been classified and has Failed
C25_Witness ==
    \E a, b \in TaskSet :
        /\ tasks[a].status = "PENDING"
        /\ failRun[a] >= 2
        /\ a \notin DOMAIN taskFailureCounts
        /\ tasks[b].status = "FAILED"
        /\ b \in DOMAIN taskFailureCounts

\* C27: the lifecycle phase starts at SEEDING and, whatever updateMetrics and
\* checkTransition calls are made, only moves forward along SEEDING, GROWTH,
\* SCALING, MATURITY: one call advances it by at most one phase, it never
\* moves back (also when the metrics have fallen below the minimums of the
\* phase it is in), and MATURITY is never left.
C27_ForwardOnly ==
    /\ (ret = NoReturn => currentPhase = "SEEDING")
    /\ [][/\ indexOf(currentPhase') \in {indexOf(currentPhase),
                                           indexOf(currentPhase) + 1}
          /\ (currentPhase = "MATURITY" => currentPhase' = "MATURITY")]_vars

\* MATURITY was reached, and the metrics are below the minimums of GROWTH again
C27_Witness ==
    /\ currentPhase = "MATURITY"
    /\ ret.op = "updateMetrics"
    /\ ~canTransition(metrics, PHASE_CRITERIA["GROWTH"])

\* C28: no step changes the priority of a task, and a task put back into the
\* pending list after a failed cycle goes ahead of every pending task of lower
\* priority and behind every pending task of equal (or higher) priority,
\* whenever those were enqueued: the others keep their order.
ReEnqueued(id) ==
    /\ call.pc = "record"
    /\ call.taskId = id
    /\ tasks'[id].status = "PENDING"

C28_ReEnqueueKeepsPriority ==
    /\ [][\A id \in TaskSet : Prio(tasks', id) = Prio(tasks, id)]_vars
    /\ [][\A id \in TaskSet : ReEnqueued(id) =>
             \E k \in 1..Len(queue') :
                 /\ queue'[k] = id
                 /\ Without(queue', k) = queue
                 /\ \A j \in 1..Len(queue) :
                       IF Prio(tasks, queue[j]) >= Prio(tasks, id)
                       THEN queue'[j] = queue[j] /\ j < k
                       ELSE queue'[j + 1] = queue[j] /\ j + 1 > k]_vars

\* task 1 has just been put back after a failed cycle and stands behind task
\* 2, enqueued after it with the same priority and not run yet
C28_Witness ==
    /\ lastResult.taskId = 1
    /\ ~lastResult.success
    /\ queue = <<2, 1>>
    /\ Prio(tasks, 1) = Prio(tasks, 2)
    /\ tasks[1].status = "PENDING"
    /\ cycles[2] = 0

\* C29: the breaker of X short-circuits an attempt only when at least
\* threshold executeWithRetry calls for X have failed in a row since the last
\* success or reset of X: each of the first threshold failed calls of a run
\* invokes the operation, and a call with a short-circuited strategy is the
\* (threshold + 1)-th of its run or a later one.
C29_NoBlockBelowThreshold ==
    /\ [][call.pc = "check" /\ failRun[call.taskId] < circuitBreakerThreshold =>
             /\ call'.pc = "op"
             /\ call'.invoked = call.invoked + 1
             /\ call'.blocked = call.blocked]_vars
    /\ [][call.pc = "record" /\ call'.pc = "idle"
             /\ failRun[call.taskId] < circuitBreakerThreshold =>
                 /\ call.invoked >= 1
                 /\ lastResult'.invoked = call.invoked]_vars
    /\ [](lastResult.taskId # 0 /\ lastResult.blocked > 0 =>
             failRun[lastResult.taskId] > circuitBreakerThreshold)

\* the call after threshold failed calls for X has just returned with a
\* short-circuited strategy: it is the (threshold + 1)-th failed call
C29_Witness ==
    /\ lastResult.taskId # 0
    /\ lastResult.blocked > 0
    /\ failRun[lastResult.taskId] = circuitBreakerThreshold + 1

\* C30: breakers are isolated per identity. A step of an executeWithRetry
\* call for X (a failure, a success, a cool-down reset) leaves the breaker
\* record of every other identity Y as it was, and whether an attempt for Y
\* is short-circuited is decided by the record of Y alone: it is when Y's
\* own record is at the threshold and inside its own cool-down window.
RecordOf(cb, y) == IF y \in DOMAIN cb THEN <<cb[y]>> ELSE <<>>

C30_BreakersIsolated ==
    /\ [][\A y \in Identities :
             RecordOf(circuitBreakers', y) # RecordOf(circuitBreakers, y) =>
                 call.pc # "idle" /\ call.taskId = y]_vars
    /\ [][call.pc = "check" =>
             LET y == call.taskId
                 own == RecordOf(circuitBreakers, y)
             IN call'.blocked > call.blocked <=>
                    /\ own # <<>>
                    /\ own[1].failures >= circuitBreakerThreshold
                    /\ now - own[1].lastFailure < circuitBreakerTimeout]_vars

\* the breaker of X is open, and a call for Y made meanwhile has just
\* returned after invoking the operation with no strategy short-circuited
C30_Witness ==
    \E x \in Identities, y \in Identities :
        /\ x # y
        /\ isCircuitBreakerOpen(circuitBreakers, x, now)
        /\ lastResult.taskId = y
        /\ lastResult.invoked >= 1
        /\ lastResult.blocked = 0

\* C31: one executeWithRetry call tries its strategies in the order given:
\* strategy k + 1 starts, at attempt 0, only when strategy k has ended
\* without a success; the operation is invoked at most config.maxAttempts
\* times under each strategy and so at most maxAttempts * |strategies| times
\* in the call; and the call returns if every invocation of the operation
\* settles.
InvokedNow == IF call.pc = "check" THEN 0 ELSE 1

C31_StrategiesInOrder ==
    /\ [](call.pc # "idle" =>
             /\ call.s \in 1..Len(call.strategies)
             /\ call.i \in 0..(configMaxAttempts - 1)
             /\ call.invoked <= (call.s - 1) * configMaxAttempts + call.i + InvokedNow
             /\ call.invoked <= configMaxAttempts * Len(call.strategies))
    /\ [][call.pc # "idle" /\ call'.pc # "idle" =>
             /\ call'.strategies = call.strategies
             /\ call'.taskId = call.taskId
             /\ call'.s \in {call.s, call.s + 1}
             /\ call'.s = call.s + 1 =>
                   /\ call.pc \in {"check", "op"}
                   /\ call'.pc = "check"
                   /\ call'.i = 0
                   /\ call'.lastError # "none"
                   /\ lastResult' = NoResult
             /\ call'.s = call.s => call'.i \in {call.i, call.i + 1}]_vars
    /\ [][lastResult'.taskId # 0 /\ lastResult'.success =>
             /\ call.pc = "op"
             /\ lastResult'.strategy = call.strategies[call.s]
             /\ call'.pc = "idle"]_vars
    /\ (call.pc # "idle" ~> call.pc = "idle")

\* a call of three strategies has just returned failure after the operation
\* was invoked maxAttempts times under each of them
C31_Witness ==
    /\ lastResult.taskId # 0
    /\ ~lastResult.success
    /\ lastResult.blocked = 0
    /\ lastResult.invoked = configMaxAttempts * 3
    /\ lastResult.strategy = "CIRCUIT_BREAKER"

\* C32: getEscalationHistory(0) returns no events, whatever the length of the
\* history.
C32_ZeroLimitReturnsNothing ==
    ret.op = "getEscalationHistory" /\ ret.limit = 0 => ret.events = <<>>

\* C33: every cycle, which adds one to the attempts of its task, invokes the
\* operation of the task at least once: the executeWithRetry call of a
\* cycle never returns with no invocation made.
C33_EveryCycleInvokes ==
    lastResult.taskId # 0 => lastResult.invoked >= 1

\* C34: the attempts field of the result of executeWithRetry is the number
\* of times the operation was invoked during the call, on success and on
\* failure, also when strategies were short-circuited.
C34_AttemptsCountInvocations ==
    lastResult.taskId # 0 => lastResult.attempts = lastResult.invoked

\* C35: in every reachable state the pending list and the task map agree:
\* the list holds exactly the tasks whose status is Pending, each once, every
\* task in it is in the map, the Running task is not in it, and size() is the
\* number of Pending tasks.
C35_PendingListAgrees ==
    [](/\ Members(queue) = WithStatus({"PENDING"})
       /\ Members(queue) \subseteq TaskSet
       /\ \A j \in 1..Len(queue) : \A k \in 1..Len(queue) :
             queue[j] = queue[k] => j = k
       /\ \A id \in Running : ~InQueue(id)
       /\ size(queue) = Cardinality(WithStatus({"PENDING"})))

\* task 1 is Running, and task 2, put back after a failed cycle of its own,
\* is the pending list
C35_Witness ==
    /\ Running = {1}
    /\ queue = <<2>>
    /\ cycles[2] >= 1
    /\ size(queue) = 1

\* C36: whenever the processing flag is false no task is Running, and the
\* flag is true exactly while a cycle is in flight: every end of a cycle
\* (success, re-enqueue, Failed, Escalated) clears the flag and leaves the
\* task of the cycle Pending, Completed, Failed or Escalated, and a later
\* processQueue call can run the next pending task.
C36_IdleMeansNoRunning ==
    /\ [](~processing => Running = {})
    /\ [](processing <=> call.pc # "idle")
    /\ [][processing /\ call'.pc = "idle" =>
             /\ ~processing'
             /\ tasks'[call.taskId].status \in Terminal \cup {"PENDING"}
             /\ Running' = {}
             /\ (queue' # <<>> => canProcess(processing', queue'))]_vars

\* a cycle has just ended in Escalated with the flag cleared, while another
\* task waits in the pending list
C36_Witness ==
    /\ ~processing
    /\ lastResult.taskId # 0
    /\ tasks[lastResult.taskId].status = "ESCALATED"
    /\ queue # <<>>

\* C37: every task reaches Completed, Failed or Escalated after at most
\* maxAttempts cycles of its own: a terminal task has had no more cycles than
\* its maxAttempts, and it is not in the pending list to be run again.
C37_TerminalWithinBudget ==
    \A id \in TaskSet :
        tasks[id].status \in Terminal =>
            /\ cycles[id] <= tasks[id].maxAttempts
            /\ ~InQueue(id)

\* C38: the phase changes only in a checkTransition (called by the cron
\* callback or at the end of updateMetrics), only to the next phase, and only
\* when each of totalUsers, totalValueLocked, transactionVolume and
\* governanceParticipation is >= the minimum of that phase; a checkTransition
\* with a metric below its minimum, or at MATURITY, leaves the phase as it
\* is, and one with every metric at or above its minimum moves to the next.
Below(m, phase) == {f \in DOMAIN m : m[f] < minimumOf(phase, f)}

C38_TransitionOnlyOnCriteria ==
    [][LET nextPhase == getNextPhase(currentPhase) IN
       /\ ret'.op \in {"checkTransition", "updateMetrics"}
       /\ ret'.op = "checkTransition" => metrics' = metrics
       /\ currentPhase' # currentPhase =>
             /\ nextPhase # "null"
             /\ currentPhase' = nextPhase
             /\ Below(metrics', nextPhase) = {}
       /\ currentPhase = "MATURITY" => currentPhase' = currentPhase
       /\ nextPhase # "null" /\ Below(metrics', nextPhase) # {} =>
             currentPhase' = currentPhase
       /\ nextPhase # "null" /\ Below(metrics', nextPhase) = {} =>
             currentPhase' = nextPhase]_vars

\* a checkTransition has just left the phase at SEEDING: three metrics are at
\* the minimums of MATURITY, totalUsers is one below the minimum of GROWTH
C38_Witness ==
    /\ ret.op = "checkTransition"
    /\ currentPhase = "SEEDING"
    /\ Below(metrics, "GROWTH") = {"totalUsers"}
    /\ Below(metrics, "MATURITY") = {"totalUsers"}
    /\ metrics.totalUsers = minimumOf("GROWTH", "totalUsers") - 1

====
